---- MODULE Spec2Model ----
(***************************************************************************)
(* Model of the CSV join engine of utils.py: check, join and the three     *)
(* file-level drivers files_innerjoin, files_leftouterjoin and             *)
(* files_rightouterjoin, together with the csv.DictReader / csv.DictWriter *)
(* conversions between a file's text rows and the row dictionaries.        *)
(***************************************************************************)
EXTENDS Integers, Sequences, FiniteSets, TLC

\* Largest number of data rows of an input file.
MaxRows == 2

Range(s) == {s[i] : i \in 1..Len(s)}

(***************************************************************************)
(* Strings of the model: column names and cell values.                     *)
(***************************************************************************)

\* str.lower() on the column names the model uses.
Lower(s) ==
  CASE s = "Id" -> "id"
    [] OTHER -> s

\* The header rows of the input files.
Headers == { <<"id", "name">>, <<"id", "dept">>, <<"Id">> }

\* The data rows a file with header h is made of.  The two kinds of file
\* share the id "1" and have one id each that the other kind lacks.
Records(h) ==
  CASE h = <<"id", "name">> -> { <<"1", "x">>, <<"2", "x">> }
    [] h = <<"id", "dept">> -> { <<"1", "e">>, <<"1", "o">>, <<"3", "e">> }
    [] h = <<"Id">> -> { <<"1">> }

\* The keyword arguments of a call, as the sequence kwargs.values() yields.
JoinSpecs ==
  { <<>>, <<"id">>, <<"Id">>, <<"name">>, <<"id", "dept">>, <<"dept", "id">> }

(***************************************************************************)
(* Files.  A csv file is a header row and data rows of cells; a file can   *)
(* be missing.                                                             *)
(***************************************************************************)

NoFile == [exists |-> FALSE, header |-> <<>>, rows |-> <<>>]

File(h, rs) == [exists |-> TRUE, header |-> h, rows |-> rs]

SeqsUpTo(S, n) == UNION {[1..k -> S] : k \in 0..n}

\* Every file the model puts on disk: each header with up to MaxRows rows.
AllFiles ==
  {NoFile} \cup UNION {{File(h, rs) : rs \in SeqsUpTo(Records(h), MaxRows)} : h \in Headers}

(***************************************************************************)
(* Row dictionaries.  A Python dict keeps its keys in insertion order:     *)
(* keys is that order, val the mapping.                                    *)
(***************************************************************************)

Has(d, k) == \E i \in 1..Len(d.keys) : d.keys[i] = k

\* dict.update: shared keys take e's value and keep their place, new keys
\* are appended in e's order.
Update(d, e) ==
  [keys |-> d.keys \o SelectSeq(e.keys, LAMBDA k : ~Has(d, k)),
   val  |-> [k \in Range(d.keys) \cup Range(e.keys) |->
               IF Has(e, k) THEN e.val[k] ELSE d.val[k]]]

\* list(csv.DictReader(f)): one dict per data row, keyed by the header.
DictReader(f) ==
  [i \in 1..Len(f.rows) |->
     [keys |-> f.header,
      val  |-> [k \in Range(f.header) |->
                  f.rows[i][CHOOSE j \in 1..Len(f.header) : f.header[j] = k]]]]

\* The cells csv.DictWriter writes for one dict: a missing field is "".
DictToList(fieldnames, d) ==
  [j \in 1..Len(fieldnames) |->
     IF Has(d, fieldnames[j]) THEN d.val[fieldnames[j]] ELSE ""]

\* A dict with a key outside fieldnames makes DictWriter raise ValueError.
Extra(fieldnames, d) == \E k \in Range(d.keys) : k \notin Range(fieldnames)

\* The rows written before the first dict DictWriter refuses.
Writable(fieldnames, rows) ==
  IF \E i \in 1..Len(rows) : Extra(fieldnames, rows[i])
  THEN (CHOOSE i \in 1..Len(rows) :
          /\ Extra(fieldnames, rows[i])
          /\ \A j \in 1..(i - 1) : ~Extra(fieldnames, rows[j])) - 1
  ELSE Len(rows)

\* open(name, "w"); writeheader(); writerows(rows).
DictWriter(fieldnames, rows) ==
  File(fieldnames, [i \in 1..Writable(fieldnames, rows) |-> DictToList(fieldnames, rows[i])])

(***************************************************************************)
(* check and join.                                                         *)
(***************************************************************************)

RECURSIVE checkFrom(_, _, _, _)
checkFrom(data1, data2, kwargs, n) ==
  IF n > Len(kwargs) THEN "match"
  ELSE LET key == Lower(kwargs[n]) IN
       IF ~Has(data1, key) \/ ~Has(data2, key) THEN "KeyError"
       ELSE IF data1.val[key] # data2.val[key] THEN "False"
       ELSE checkFrom(data1, data2, kwargs, n + 1)

\* check(data1, data2, **kwargs): "match" stands for the truthy pair the
\* code returns, "KeyError" for the failed lookup of a missing key.
check(data1, data2, kwargs) == checkFrom(data1, data2, kwargs, 1)

\* validate looking only at the first key of kwargs.
validate_first_key(file1_data, file2_data, kwargs, n) ==
  IF n > 1 \/ n > Len(kwargs) THEN "ok"
  ELSE LET key == Lower(kwargs[n]) IN
       IF Len(file1_data) = 0 THEN "IndexError"
       ELSE IF ~Has(file1_data[1], key) THEN "None"
       ELSE IF Len(file2_data) = 0 THEN "IndexError"
       ELSE IF ~Has(file2_data[1], key) THEN "None"
       ELSE "ok"

\* validate looking the keys up as they are spelled, without key.lower().
RECURSIVE validate_as_spelled(_, _, _, _)
validate_as_spelled(file1_data, file2_data, kwargs, n) ==
  IF n > Len(kwargs) THEN "ok"
  ELSE LET key == kwargs[n] IN
       IF Len(file1_data) = 0 THEN "IndexError"
       ELSE IF ~Has(file1_data[1], key) THEN "None"
       ELSE IF Len(file2_data) = 0 THEN "IndexError"
       ELSE IF ~Has(file2_data[1], key) THEN "None"
       ELSE validate_as_spelled(file1_data, file2_data, kwargs, n + 1)

\* The validation loop of join: "ok" when every key is found, "None" at the
\* first key missing from either first row, "IndexError" when the first row
\* that is looked at does not exist.
RECURSIVE validate(_, _, _, _)
validate(file1_data, file2_data, kwargs, n) ==
  IF n > Len(kwargs) THEN "ok"
  ELSE LET key == Lower(kwargs[n]) IN
       IF Len(file1_data) = 0 THEN "IndexError"
       ELSE IF ~Has(file1_data[1], key) THEN "None"
       ELSE IF Len(file2_data) = 0 THEN "IndexError"
       ELSE IF ~Has(file2_data[1], key) THEN "None"
       ELSE validate(file1_data, file2_data, kwargs, n + 1)

\* What a call of join leaves behind.  data_list holds references to rows of
\* file1_data (their indices): the code appends the row object itself.
\* compares counts the calls of check.
JoinState(kind, file1_data, file2_data) ==
  [kind |-> kind, file1_data |-> file1_data, file2_data |-> file2_data,
   data_list |-> <<>>, compares |-> 0]

\* pairStep with the merge filling in only the columns data1 lacks.
pairStep_keep_first(st, kwargs, i, j) ==
  LET c == check(st.file1_data[i], st.file2_data[j], kwargs) IN
  IF c = "KeyError" THEN [st EXCEPT !.kind = "KeyError", !.compares = @ + 1]
  ELSE IF c = "match"
  THEN [st EXCEPT !.file1_data[i] = [Update(st.file2_data[j], @) EXCEPT !.keys = Update(st.file1_data[i], st.file2_data[j]).keys],
                  !.data_list = Append(@, i),
                  !.compares = @ + 1]
  ELSE [st EXCEPT !.compares = @ + 1]

\* pairStep with the merge applied to both rows of the pair.
pairStep_merge_both(st, kwargs, i, j) ==
  LET c == check(st.file1_data[i], st.file2_data[j], kwargs) IN
  IF c = "KeyError" THEN [st EXCEPT !.kind = "KeyError", !.compares = @ + 1]
  ELSE IF c = "match"
  THEN [st EXCEPT !.file1_data[i] = Update(@, st.file2_data[j]),
                  !.file2_data[j] = Update(@, st.file1_data[i]),
                  !.data_list = Append(@, i),
                  !.compares = @ + 1]
  ELSE [st EXCEPT !.compares = @ + 1]

\* The body of the inner loop for the pair (data1, data2) = rows (i, j).
pairStep(st, kwargs, i, j) ==
  LET c == check(st.file1_data[i], st.file2_data[j], kwargs) IN
  IF c = "KeyError" THEN [st EXCEPT !.kind = "KeyError", !.compares = @ + 1]
  ELSE IF c = "match"
  THEN [st EXCEPT !.file1_data[i] = Update(@, st.file2_data[j]),
                  !.data_list = Append(@, i),
                  !.compares = @ + 1]
  ELSE [st EXCEPT !.compares = @ + 1]

\* The nested loops of join from pair number p on, file1_data rows outermost.
RECURSIVE joinLoop(_, _, _)
joinLoop(st, kwargs, p) ==
  IF st.kind # "ok" \/ p >= Len(st.file1_data) * Len(st.file2_data) THEN st
  ELSE joinLoop(pairStep(st, kwargs, (p \div Len(st.file2_data)) + 1,
                         (p % Len(st.file2_data)) + 1),
                kwargs, p + 1)

\* join(file1_data, file2_data, **kwargs).  kind is "tuple" when the triple
\* is returned, "None", or the exception raised.
join(file1_data, file2_data, kwargs) ==
  LET v == validate(file1_data, file2_data, kwargs, 1) IN
  IF v # "ok" THEN JoinState(v, file1_data, file2_data)
  ELSE LET st == joinLoop(JoinState("ok", file1_data, file2_data), kwargs, 0) IN
       IF st.kind # "ok" THEN st
       ELSE IF Len(st.data_list) = 0 THEN [st EXCEPT !.kind = "IndexError"]
       ELSE [st EXCEPT !.kind = "tuple"]

\* output[1]: the match list, each entry read through its reference.
DataList(j) == [k \in 1..Len(j.data_list) |-> j.file1_data[j.data_list[k]]]

\* output[2]: data_list[0].keys().
Keys(j) == j.file1_data[j.data_list[1]].keys

NotCalled == JoinState("notcalled", <<>>, <<>>)

(***************************************************************************)
(* The file-level drivers.  fs maps a file name to its content.  A call    *)
(* yields its outcome: kind is "None", "rows" (a table is returned) or the *)
(* exception raised; rows is the returned table; reads lists the files     *)
(* passed to open(..., "r"); j is what the call of join left behind.       *)
(***************************************************************************)

Outcome(kind, rows, fs, reads, j) ==
  [kind |-> kind, rows |-> rows, fs |-> fs, reads |-> reads, j |-> j]

\* The tail shared by the drivers' code: write rows under fieldnames to
\* result.csv and return rows.
WriteResult(fs, reads, j, fieldnames, rows) ==
  LET fs2 == [fs EXCEPT !["result.csv"] = DictWriter(fieldnames, rows)] IN
  IF Writable(fieldnames, rows) < Len(rows)
  THEN Outcome("ValueError", <<>>, fs2, reads, j)
  ELSE Outcome("rows", rows, fs2, reads, j)

\* files_innerjoin without the test of an empty kwargs.
files_innerjoin_unguarded(fs, filename1, filename2, kwargs) ==
  IF ~fs[filename1].exists
  THEN Outcome("FileNotFoundError", <<>>, fs, <<filename1>>, NotCalled)
  ELSE IF ~fs[filename2].exists
  THEN Outcome("FileNotFoundError", <<>>, fs, <<filename1, filename2>>, NotCalled)
  ELSE LET file1_data == DictReader(fs[filename1])
           file2_data == DictReader(fs[filename2])
           reads == <<filename1, filename2>>
           output == join(file1_data, file2_data, kwargs)
       IN IF output.kind # "tuple" THEN Outcome(output.kind, <<>>, fs, reads, output)
          ELSE WriteResult(fs, reads, output, Keys(output), DataList(output))

\* files_innerjoin opening result.csv for writing before it calls join.
files_innerjoin_open_first(fs, filename1, filename2, kwargs) ==
  IF Len(kwargs) = 0 THEN Outcome("None", <<>>, fs, <<>>, NotCalled)
  ELSE IF ~fs[filename1].exists
  THEN Outcome("FileNotFoundError", <<>>, fs, <<filename1>>, NotCalled)
  ELSE IF ~fs[filename2].exists
  THEN Outcome("FileNotFoundError", <<>>, fs, <<filename1, filename2>>, NotCalled)
  ELSE LET file1_data == DictReader(fs[filename1])
           file2_data == DictReader(fs[filename2])
           reads == <<filename1, filename2>>
           opened == [fs EXCEPT !["result.csv"] = File(<<>>, <<>>)]
           output == join(file1_data, file2_data, kwargs)
       IN IF output.kind # "tuple" THEN Outcome(output.kind, <<>>, opened, reads, output)
          ELSE WriteResult(opened, reads, output, Keys(output), DataList(output))

files_innerjoin(fs, filename1, filename2, kwargs) ==
  IF Len(kwargs) = 0 THEN Outcome("None", <<>>, fs, <<>>, NotCalled)
  ELSE IF ~fs[filename1].exists
  THEN Outcome("FileNotFoundError", <<>>, fs, <<filename1>>, NotCalled)
  ELSE IF ~fs[filename2].exists
  THEN Outcome("FileNotFoundError", <<>>, fs, <<filename1, filename2>>, NotCalled)
  ELSE LET file1_data == DictReader(fs[filename1])
           file2_data == DictReader(fs[filename2])
           reads == <<filename1, filename2>>
           output == join(file1_data, file2_data, kwargs)
       IN IF output.kind # "tuple" THEN Outcome(output.kind, <<>>, fs, reads, output)
          ELSE WriteResult(fs, reads, output, Keys(output), DataList(output))

\* files_leftouterjoin writing and returning output[1], the match list.
files_leftouterjoin_matches(fs, filename1, filename2, kwargs) ==
  IF Len(kwargs) = 0 THEN Outcome("None", <<>>, fs, <<>>, NotCalled)
  ELSE IF ~fs[filename1].exists
  THEN Outcome("FileNotFoundError", <<>>, fs, <<filename1>>, NotCalled)
  ELSE IF ~fs[filename2].exists
  THEN Outcome("FileNotFoundError", <<>>, fs, <<filename1, filename2>>, NotCalled)
  ELSE LET file1_data == DictReader(fs[filename1])
           file2_data == DictReader(fs[filename2])
           reads == <<filename1, filename2>>
           output == join(file1_data, file2_data, kwargs)
       IN IF output.kind # "tuple" THEN Outcome(output.kind, <<>>, fs, reads, output)
          ELSE WriteResult(fs, reads, output, Keys(output), DataList(output))

files_leftouterjoin(fs, filename1, filename2, kwargs) ==
  IF Len(kwargs) = 0 THEN Outcome("None", <<>>, fs, <<>>, NotCalled)
  ELSE IF ~fs[filename1].exists
  THEN Outcome("FileNotFoundError", <<>>, fs, <<filename1>>, NotCalled)
  ELSE IF ~fs[filename2].exists
  THEN Outcome("FileNotFoundError", <<>>, fs, <<filename1, filename2>>, NotCalled)
  ELSE LET file1_data == DictReader(fs[filename1])
           file2_data == DictReader(fs[filename2])
           reads == <<filename1, filename2>>
           output == join(file1_data, file2_data, kwargs)
       IN IF output.kind # "tuple" THEN Outcome(output.kind, <<>>, fs, reads, output)
          ELSE WriteResult(fs, reads, output, Keys(output), output.file1_data)

\* files_rightouterjoin passing the tables to join in file order.
files_rightouterjoin_unswapped(fs, filename1, filename2, kwargs) ==
  IF Len(kwargs) = 0 THEN Outcome("None", <<>>, fs, <<>>, NotCalled)
  ELSE IF ~fs[filename1].exists
  THEN Outcome("FileNotFoundError", <<>>, fs, <<filename1>>, NotCalled)
  ELSE IF ~fs[filename2].exists
  THEN Outcome("FileNotFoundError", <<>>, fs, <<filename1, filename2>>, NotCalled)
  ELSE LET file1_data == DictReader(fs[filename1])
           file2_data == DictReader(fs[filename2])
           reads == <<filename1, filename2>>
           output == join(file1_data, file2_data, kwargs)
       IN IF output.kind # "tuple" THEN Outcome(output.kind, <<>>, fs, reads, output)
          ELSE WriteResult(fs, reads, output, Keys(output), output.file1_data)

files_rightouterjoin(fs, filename1, filename2, kwargs) ==
  IF Len(kwargs) = 0 THEN Outcome("None", <<>>, fs, <<>>, NotCalled)
  ELSE IF ~fs[filename1].exists
  THEN Outcome("FileNotFoundError", <<>>, fs, <<filename1>>, NotCalled)
  ELSE IF ~fs[filename2].exists
  THEN Outcome("FileNotFoundError", <<>>, fs, <<filename1, filename2>>, NotCalled)
  ELSE LET file1_data == DictReader(fs[filename1])
           file2_data == DictReader(fs[filename2])
           reads == <<filename1, filename2>>
           output == join(file2_data, file1_data, kwargs)
       IN IF output.kind # "tuple" THEN Outcome(output.kind, <<>>, fs, reads, output)
          ELSE WriteResult(fs, reads, output, Keys(output), output.file1_data)

(***************************************************************************)
(* The state machine: a file system and the calls made on it.              *)
(***************************************************************************)

VARIABLES fs, call, out

vars == <<fs, call, out>>

FileNames == {"sample1.csv", "sample2.csv", "result.csv"}

\* The file system holding the two input files and no result.csv yet.
Disk(f1, f2) ==
  [n \in FileNames |->
     IF n = "sample1.csv" THEN f1 ELSE IF n = "sample2.csv" THEN f2 ELSE NoFile]

NoCall == [op |-> "none", kwargs |-> <<>>, fs |-> Disk(NoFile, NoFile)]

NoOutcome == Outcome("none", <<>>, Disk(NoFile, NoFile), <<>>, NotCalled)

Init ==
  /\ \E f1 \in AllFiles, f2 \in AllFiles : fs = Disk(f1, f2)
  /\ call = NoCall
  /\ out = NoOutcome

\* The caller's view once a call has ended: the call's arguments (the file
\* names are always sample1.csv, sample2.csv), the file system it started
\* from, its outcome and the file system it leaves.
Called(op, kwargs, o) ==
  /\ call' = [op |-> op, kwargs |-> kwargs, fs |-> fs]
  /\ out' = o
  /\ fs' = o.fs

InnerJoinCall(specs) ==
  \E kwargs \in specs :
    Called("inner", kwargs, files_innerjoin(fs, "sample1.csv", "sample2.csv", kwargs))

LeftOuterJoinCall(specs) ==
  \E kwargs \in specs :
    Called("left", kwargs, files_leftouterjoin(fs, "sample1.csv", "sample2.csv", kwargs))

RightOuterJoinCall(specs) ==
  \E kwargs \in specs :
    Called("right", kwargs, files_rightouterjoin(fs, "sample1.csv", "sample2.csv", kwargs))

\* One call on every file system of the model.
InnerJoin == call.op = "none" /\ InnerJoinCall(JoinSpecs)

LeftOuterJoin == call.op = "none" /\ LeftOuterJoinCall(JoinSpecs)

RightOuterJoin == call.op = "none" /\ RightOuterJoinCall(JoinSpecs)

Next == InnerJoin \/ LeftOuterJoin \/ RightOuterJoin

Spec == Init /\ [][Next]_vars

\* Any sequence of calls, on the file systems whose input files have a
\* lower-case header and the id "1" in every row.
SeqFiles ==
  {f \in AllFiles :
     /\ f.exists => f.header \in {<<"id", "name">>, <<"id", "dept">>}
     /\ \A i \in 1..Len(f.rows) : f.rows[i][1] = "1"}

\* The keyword arguments of the calls made in sequence: none, one column of
\* both files, a column of neither, both columns.
SeqJoinSpecs == { <<>>, <<"id">>, <<"name">>, <<"id", "dept">> }

SeqInnerJoin == InnerJoinCall(SeqJoinSpecs)

SeqLeftOuterJoin == LeftOuterJoinCall(SeqJoinSpecs)

SeqRightOuterJoin == RightOuterJoinCall(SeqJoinSpecs)

SeqInit ==
  /\ \E f1 \in SeqFiles, f2 \in SeqFiles : fs = Disk(f1, f2)
  /\ call = NoCall
  /\ out = NoOutcome

SeqNext == SeqInnerJoin \/ SeqLeftOuterJoin \/ SeqRightOuterJoin

SeqSpec == SeqInit /\ [][SeqNext]_vars

(***************************************************************************)
(* Vocabulary of the properties: the tables a call started from and what   *)
(* the join of two tables is.                                              *)
(***************************************************************************)

Made == call.op # "none"

\* The call got as far as calling join.
Joined == Made /\ out.j.kind # "notcalled"

\* The tables loaded from filename1 and filename2 before the call.
A0 == DictReader(call.fs["sample1.csv"])

B0 == DictReader(call.fs["sample2.csv"])

\* The tables join received as its first and second argument.
Left0 == IF call.op = "right" THEN B0 ELSE A0

Right0 == IF call.op = "right" THEN A0 ELSE B0

\* Rows a and b agree on every JoinSpec column.
Agree(a, b, kwargs) ==
  \A n \in 1..Len(kwargs) :
    LET c == Lower(kwargs[n]) IN Has(a, c) /\ Has(b, c) /\ a.val[c] = b.val[c]

\* The rows of B that row a matches, by index.
MatchesOf(a, B, kwargs) == {j \in 1..Len(B) : Agree(a, B[j], kwargs)}

\* The matching pairs <<i, j>> in A-major, B-minor order, from pair number p on.
RECURSIVE PairsFrom(_, _, _, _)
PairsFrom(A, B, kwargs, p) ==
  IF p >= Len(A) * Len(B) THEN <<>>
  ELSE LET i == (p \div Len(B)) + 1
           j == (p % Len(B)) + 1
       IN (IF Agree(A[i], B[j], kwargs) THEN << <<i, j>> >> ELSE <<>>)
            \o PairsFrom(A, B, kwargs, p + 1)

\* a's columns merged with b's columns, b's value on a shared column.
MergeVal(a, b) ==
  [k \in Range(a.keys) \cup Range(b.keys) |-> IF Has(b, k) THEN b.val[k] ELSE a.val[k]]

\* Some column of row d is named c, ignoring letter case.
HasIgnoringCase(d, c) == \E k \in Range(d.keys) : Lower(k) = Lower(c)

\* The number of entries of the match list that are row i.
EntriesOf(j, i) == Cardinality({k \in 1..Len(j.data_list) : j.data_list[k] = i})

\* Both tables have a first row, so both have a column set.
BothNonEmpty == Len(Left0) > 0 /\ Len(Right0) > 0

(***************************************************************************)
(* Properties.                                                             *)
(***************************************************************************)

\* C1: when join returns its triple, the match list has exactly one entry
\* per pair (a, b) agreeing on every JoinSpec column, in A-major, B-minor
\* order, and the entry of pair (a, b) is a's columns merged with b's
\* columns, b's value on a shared column.
C1_MatchListIsPairwiseMerge ==
  (Joined /\ out.j.kind = "tuple") =>
    LET pairs == PairsFrom(Left0, Right0, call.kwargs, 0)
        list  == DataList(out.j)
    IN /\ Len(list) = Len(pairs)
       /\ \A k \in 1..Len(pairs) :
            list[k].val = MergeVal(Left0[pairs[k][1]], Right0[pairs[k][2]])

\* C2: a successful left-outer join returns one row per row of A in A's
\* order; a row of A matching some row of B carries the columns of a
\* matching B row in addition to its own, a row matching none is returned
\* with exactly its original columns and values, and nothing else is
\* returned (no row comes from B alone).
C2_LeftOuterRows ==
  (call.op = "left" /\ out.kind = "rows") =>
    /\ Len(out.rows) = Len(A0)
    /\ \A i \in 1..Len(A0) :
         LET ms == MatchesOf(A0[i], B0, call.kwargs) IN
         IF ms = {} THEN out.rows[i] = A0[i]
         ELSE \E j \in ms : out.rows[i].val = MergeVal(A0[i], B0[j])

C2_Witness ==
  /\ call.op = "left" /\ out.kind = "rows"
  /\ \E i \in 1..Len(A0) : MatchesOf(A0[i], B0, call.kwargs) = {}
  /\ \E i \in 1..Len(A0) : MatchesOf(A0[i], B0, call.kwargs) # {} /\ out.rows[i] # A0[i]
  /\ \E j \in 1..Len(B0) : MatchesOf(B0[j], A0, call.kwargs) = {}

\* C3: files_rightouterjoin(A, B, spec) ends as files_leftouterjoin(B, A,
\* spec) does from the same file system: the same returned table or the
\* same absent or error outcome, and the same files on disk.
C3_RightIsLeftSwapped ==
  call.op = "right" =>
    LET o == files_leftouterjoin(call.fs, "sample2.csv", "sample1.csv", call.kwargs) IN
    /\ o.kind = out.kind
    /\ o.rows = out.rows
    /\ o.fs = fs

C3_Witness ==
  /\ call.op = "right" /\ out.kind = "rows"
  /\ LET o == files_leftouterjoin(call.fs, "sample1.csv", "sample2.csv", call.kwargs) IN
     o.kind = "rows" /\ o.rows # out.rows /\ o.fs # fs

\* C4: when the JoinSpec columns exist in both non-empty tables and no pair
\* of rows matches, the driver returns the absent result and writes no
\* output file.
C4_NoMatchReturnsAbsent ==
  ( /\ Made /\ Len(call.kwargs) > 0
    /\ call.fs["sample1.csv"].exists /\ call.fs["sample2.csv"].exists
    /\ BothNonEmpty
    /\ \A n \in 1..Len(call.kwargs) :
         Has(Left0[1], Lower(call.kwargs[n])) /\ Has(Right0[1], Lower(call.kwargs[n]))
    /\ PairsFrom(Left0, Right0, call.kwargs, 0) = <<>> )
  => (out.kind = "None" /\ fs = call.fs)

\* Some JoinSpec column is in the column set of A or of B under no spelling.
SomeColumnAbsent ==
  \E n \in 1..Len(call.kwargs) :
    \/ ~HasIgnoringCase(Left0[1], call.kwargs[n])
    \/ ~HasIgnoringCase(Right0[1], call.kwargs[n])

C6_EmptySpecRejected ==
  (Made /\ call.kwargs = <<>>) =>
    /\ out.kind = "None"
    /\ out.reads = <<>>
    /\ out.j.kind = "notcalled"
    /\ fs = call.fs

C6_Witness ==
  /\ Made /\ call.kwargs = <<>> /\ out.kind = "None"
  /\ ~call.fs["sample1.csv"].exists
  /\ Len(B0) > 0

\* C7: join's validation rejects the JoinSpec exactly when some column of it
\* equals no column of A or no column of B ignoring letter case.
C7_CaseInsensitiveValidation ==
  (Joined /\ BothNonEmpty) => ((out.j.kind = "None") <=> SomeColumnAbsent)

\* C7 as amended: join's validation rejects the JoinSpec exactly when the
\* lower-cased form of some column of it is not, letter for letter, a column
\* of A or of B; an accepted JoinSpec has every pair of rows compared on the
\* lower-cased columns.
C7_LowerCasedValidation ==
  (Joined /\ BothNonEmpty) =>
    /\ (out.j.kind = "None") <=>
         \E n \in 1..Len(call.kwargs) :
           \/ ~Has(Left0[1], Lower(call.kwargs[n]))
           \/ ~Has(Right0[1], Lower(call.kwargs[n]))
    /\ out.j.kind # "None" =>
         /\ out.j.compares = Len(Left0) * Len(Right0)
         /\ Len(out.j.data_list) = Len(PairsFrom(Left0, Right0, call.kwargs, 0))

C7_Witness ==
  /\ Joined /\ out.j.kind = "tuple"
  /\ call.kwargs = <<"Id">>
  /\ Len(out.j.data_list) < out.j.compares

\* C8: result.csv is written only by a call whose JoinSpec is non-empty,
\* whose inputs both loaded, whose join columns were found and which found a
\* match, and then it holds the complete result: the header and every row
\* returned; every other call leaves the disk as the call before left it.
C8_WriteGatedBehindSuccess ==
  Made =>
    IF /\ Len(call.kwargs) > 0
       /\ call.fs["sample1.csv"].exists /\ call.fs["sample2.csv"].exists
       /\ BothNonEmpty
       /\ \A n \in 1..Len(call.kwargs) :
            Has(Left0[1], Lower(call.kwargs[n])) /\ Has(Right0[1], Lower(call.kwargs[n]))
       /\ PairsFrom(Left0, Right0, call.kwargs, 0) # <<>>
    THEN LET f == fs["result.csv"] IN
         /\ out.kind = "rows"
         /\ fs = [call.fs EXCEPT !["result.csv"] = f]
         /\ f.exists
         /\ Range(f.header) = UNION {Range(out.rows[i].keys) : i \in 1..Len(out.rows)}
         /\ Cardinality(Range(f.header)) = Len(f.header)
         /\ Len(f.rows) = Len(out.rows)
         /\ \A i \in 1..Len(f.rows) :
              /\ Len(f.rows[i]) = Len(f.header)
              /\ \A c \in 1..Len(f.header) :
                   f.rows[i][c] = IF Has(out.rows[i], f.header[c])
                                  THEN out.rows[i].val[f.header[c]] ELSE ""
    ELSE out.kind # "rows" /\ fs = call.fs

C8_Witness ==
  /\ Made /\ out.kind = "IndexError"
  /\ call.fs["result.csv"].exists
  /\ Len(call.fs["result.csv"].rows) = 2
  /\ fs = call.fs

\* C9: when a row a of A matches k >= 2 rows of B, after join the row of a
\* in the left table holds, for every column of B, the value of the last
\* matching B row, and the match list has k entries for a.
C9_LastMatchWins ==
  (Joined /\ out.j.kind = "tuple") =>
    \A i \in 1..Len(Left0) :
      LET ms == MatchesOf(Left0[i], Right0, call.kwargs) IN
      Cardinality(ms) >= 2 =>
        LET last == CHOOSE j \in ms : \A m \in ms : m <= j IN
        /\ \A c \in Range(Right0[last].keys) :
             Has(out.j.file1_data[i], c) /\ out.j.file1_data[i].val[c] = Right0[last].val[c]
        /\ EntriesOf(out.j, i) = Cardinality(ms)

C9_Witness ==
  /\ Joined /\ out.j.kind = "tuple"
  /\ \E i \in 1..Len(Left0) :
       LET ms == MatchesOf(Left0[i], Right0, call.kwargs) IN
       /\ Cardinality(ms) >= 2
       /\ \E j1 \in ms, j2 \in ms : Right0[j1] # Right0[j2]

\* C10: join leaves its second argument as it was, rows and order, and
\* leaves the join-column values of every row of its first argument as they
\* were; the pairs it finds are the matching pairs of the original tables.
C10_SecondTableUntouched ==
  Joined =>
    /\ out.j.file2_data = Right0
    /\ Len(out.j.file1_data) = Len(Left0)
    /\ \A i \in 1..Len(Left0) : \A n \in 1..Len(call.kwargs) :
         LET c == Lower(call.kwargs[n]) IN
         Has(Left0[i], c) =>
           Has(out.j.file1_data[i], c) /\ out.j.file1_data[i].val[c] = Left0[i].val[c]
    /\ out.j.kind \in {"tuple", "IndexError"} =>
         \A i \in 1..Len(Left0) :
           EntriesOf(out.j, i) = Cardinality(MatchesOf(Left0[i], Right0, call.kwargs))

C10_Witness ==
  /\ Joined /\ out.j.kind = "tuple"
  /\ out.j.file1_data # Left0
  /\ out.j.file2_data = Right0
  /\ Len(Right0) = 2
  /\ \E c \in Range(Left0[1].keys) : out.j.file1_data[1].val[c] # Left0[1].val[c]
====
